---- MODULE Spec2Model ----
(***************************************************************************)
(* TfidfRetriever (haystack/retriever/tfidf.py): paragraph segmentation,   *)
(* TF-IDF indexing and top-k retrieval over a document store.              *)
(*                                                                         *)
(* A text is a sequence of one-character strings.  Weights are fixed-point *)
(* integers (three decimal places); the natural logarithm is tabulated.    *)
(***************************************************************************)
EXTENDS Integers, Sequences, FiniteSets, TLC

\* ------------------------------------------------------------- bounds
\* documents ever written to the document store in one behaviour
MaxWrites == 2
\* SpecSeg: documents in the store, and characters over all their texts
MaxSegDocs == 2
MaxSegChars == 5

\* ------------------------------------------------------------- values
\* Python's None / an attribute not yet assigned, and a present value
None == <<>>
Some(x) == <<x>>

Min(a, b) == IF a < b THEN a ELSE b
Max(a, b) == IF a > b THEN a ELSE b

\* ------------------------------------------------------------- characters
\* str.isspace() on the characters used here
Whitespace == {" ", "\n", "\t"}

\* str.lower() on one character
LowerChar(c) ==
    CASE c = "A" -> "a" [] c = "B" -> "b" [] c = "C" -> "c"
      [] c = "D" -> "d" [] c = "E" -> "e" [] c = "F" -> "f"
      [] OTHER -> c

\* the regular expression class \w, after lowercasing
WordChars == {"a", "b", "c", "d", "e", "f", "z", "0", "1", "_"}

\* ------------------------------------------------------------- strings
RECURSIVE SplitFrom(_, _, _)
\* str.split("\n\n") scanning s from position i, cur being the segment so far
SplitFrom(s, i, cur) ==
    IF i > Len(s) THEN <<cur>>
    ELSE IF i + 1 <= Len(s) /\ s[i] = "\n" /\ s[i + 1] = "\n"
         THEN <<cur>> \o SplitFrom(s, i + 2, <<>>)
         ELSE SplitFrom(s, i + 1, Append(cur, s[i]))

\* doc.text.split("\n\n")
Split(s) == SplitFrom(s, 1, <<>>)

RECURSIVE LStrip(_)
LStrip(s) ==
    IF s # <<>> /\ Head(s) \in Whitespace THEN LStrip(Tail(s)) ELSE s

RECURSIVE RStrip(_)
RStrip(s) ==
    IF s # <<>> /\ s[Len(s)] \in Whitespace
    THEN RStrip(SubSeq(s, 1, Len(s) - 1)) ELSE s

\* p.strip()
Strip(s) == RStrip(LStrip(s))

RECURSIVE Join(_)
\* " ".join(x) for a tuple x of strings
Join(x) ==
    IF x = <<>> THEN <<>>
    ELSE IF Len(x) = 1 THEN x[1]
    ELSE x[1] \o <<" ">> \o Join(Tail(x))

\* ------------------------------------------------------------- tokenizer
\* lowercase=True
Lower(s) == [i \in 1..Len(s) |-> LowerChar(s[i])]

RECURSIVE TokensFrom(_, _, _)
\* token_pattern (?u)\b\w\w+\b: the maximal runs of word characters of
\* length two or more, scanning s from position i with run cur
TokensFrom(s, i, cur) ==
    IF i > Len(s) THEN (IF Len(cur) >= 2 THEN <<cur>> ELSE <<>>)
    ELSE IF s[i] \in WordChars THEN TokensFrom(s, i + 1, Append(cur, s[i]))
    ELSE (IF Len(cur) >= 2 THEN <<cur>> ELSE <<>>) \o TokensFrom(s, i + 1, <<>>)

\* the analyzer of the vectorizer: lowercase, then unigram tokens
Tokenize(s) == TokensFrom(Lower(s), 1, <<>>)

\* number of occurrences of term t in a token sequence
Count(toks, t) == Cardinality({i \in 1..Len(toks) : toks[i] = t})

\* ------------------------------------------------------------- segmentation
\* Paragraph = namedtuple("Paragraph", [...]) as built at line 53: the text
\* is the one-element tuple (p,)
Paragraph(p_id, doc, p) ==
    [paragraph_id |-> p_id, document_id |-> doc.id, text |-> <<p>>,
     meta |-> doc.meta]

\* `if not p.strip()` with p = p.strip() forgotten: only "" is skipped
skip_unstripped(p) == p = <<>>

\* `if not p.strip(): continue`
skip_paragraph(p) == Strip(p) = <<>>

RECURSIVE split_loop(_, _, _, _)
\* the inner loop over doc.text.split("\n\n"), from segment k on;
\* acc holds the locals paragraphs and p_id
split_loop(doc, segs, k, acc) ==
    IF k > Len(segs) THEN acc
    ELSE IF skip_paragraph(segs[k]) THEN split_loop(doc, segs, k + 1, acc)
    ELSE split_loop(doc, segs, k + 1,
            [paragraphs |-> Append(acc.paragraphs,
                                   Paragraph(acc.p_id, doc, segs[k])),
             p_id |-> acc.p_id + 1])

RECURSIVE documents_loop(_, _, _)
\* the outer loop over documents, from document d on
documents_loop(documents, d, acc) ==
    IF d > Len(documents) THEN acc
    ELSE documents_loop(documents, d + 1,
            split_loop(documents[d], Split(documents[d].text), 1, acc))

\* TfidfRetriever._get_all_paragraphs, given what get_all_documents() returns
_get_all_paragraphs(documents) ==
    documents_loop(documents, 1, [paragraphs |-> <<>>, p_id |-> 0]).paragraphs

\* ------------------------------------------------------------- vectorizer
\* 1000 * ln(n) for n = 1..12, rounded
LnMilli == <<0, 693, 1099, 1386, 1609, 1792, 1946, 2079, 2197, 2303, 2398, 2485>>

RECURSIVE SumOver(_, _)
\* the sum of f[t] over the domain S of f
SumOver(S, f) ==
    IF S = {} THEN 0
    ELSE LET t == CHOOSE x \in S : TRUE IN f[t] + SumOver(S \ {t}, f)

RECURSIVE SqrtBetween(_, _, _)
\* the largest r in lo..hi with r * r <= n
SqrtBetween(lo, hi, n) ==
    IF lo >= hi THEN lo
    ELSE LET mid == (lo + hi + 1) \div 2
         IN IF mid * mid <= n THEN SqrtBetween(mid, hi, n)
            ELSE SqrtBetween(lo, mid - 1, n)

\* floor of the square root
ISqrt(n) == SqrtBetween(0, 46340, n)

\* norm="l2": divide by the Euclidean norm; a zero vector is left as it is
Normalize(v) ==
    LET nn == SumOver(DOMAIN v, [t \in DOMAIN v |-> v[t] * v[t]])
    IN IF nn = 0 THEN v
       ELSE [t \in DOMAIN v |-> (v[t] * 1000) \div ISqrt(nn)]

\* smooth_idf=True: idf(t) = ln((1 + P) / (1 + df(t))) + 1, in thousandths
Idf(P, dft) == LnMilli[1 + P] - LnMilli[1 + dft] + 1000

\* one row of the tf-idf matrix: counts over the vocabulary times idf, L2-normalized
TfidfRow(vec, text) ==
    LET toks == Tokenize(text)
    IN Normalize([t \in vec.vocabulary_ |-> Count(toks, t) * vec.idf_[t]])

\* vectorizer.fit_transform(texts): the fitted vectorizer and the matrix,
\* or ValueError("empty vocabulary ...") when no text yields a term
fit_transform(texts) ==
    LET toks == [i \in 1..Len(texts) |-> Tokenize(texts[i])]
        vocab == UNION {{toks[i][j] : j \in 1..Len(toks[i])} : i \in 1..Len(texts)}
        dfreq == [t \in vocab |->
                    Cardinality({i \in 1..Len(texts) : Count(toks[i], t) > 0})]
        vec == [vocabulary_ |-> vocab,
                idf_ |-> [t \in vocab |-> Idf(Len(texts), dfreq[t])]]
    IN IF vocab = {}
       THEN [error |-> "ValueError", vectorizer |-> None, matrix |-> None]
       ELSE [error |-> "none", vectorizer |-> Some(vec),
             matrix |-> Some([i \in 1..Len(texts) |-> TfidfRow(vec, texts[i])])]

\* vectorizer.transform([query]): the query vector over the fitted vocabulary
transform(vec, query) == TfidfRow(vec, query)

\* ------------------------------------------------------------- inputs
\* document identifiers, in the order the documents are written
DocIds == <<"d1", "d2", "d3", "d4", "d5">>

\* "ab cd cd\n\n \n\nAb": two paragraphs around a blank segment
TextTwoParagraphs ==
    <<"a", "b", " ", "c", "d", " ", "c", "d", "\n", "\n", " ", "\n", "\n",
      "A", "b">>
\* "a b": a paragraph whose tokens are all shorter than two characters
TextNoTerms == <<"a", " ", "b">>
\* "ab"
TextOneTerm == <<"a", "b">>

\* the text and meta of the documents that may be written
DocPool ==
    { [text |-> TextTwoParagraphs, meta |-> [name |-> "faq"]],
      [text |-> TextNoTerms,       meta |-> [name |-> "wiki", lang |-> "en"]],
      [text |-> TextOneTerm,       meta |-> [name |-> "wiki", lang |-> "en"]] }

\* "Ab" and "zz" (never in a vocabulary)
Queries == { <<"A", "b">>, <<"z", "z">> }

\* filters: None, {} and {"x": 1}
NoFilters == Some({})
SomeFilters == Some({<<"x", 1>>})

\* index: None, "" and "other"
EmptyIndex == Some(<<>>)
OtherIndex == Some(<<"o", "t", "h", "e", "r">>)

\* the (filters, index) pairs retrieve may be called with
FiltersAndIndex ==
    { <<None, None>>, <<NoFilters, None>>, <<SomeFilters, None>>,
      <<None, EmptyIndex>>, <<None, OtherIndex>> }

\* top_k: negative, zero, and positive
TopKs == {0 - 1, 0, 2}

\* ------------------------------------------------------------- state
VARIABLES
    store,         \* the documents get_all_documents() returns, in order
    writes,        \* documents written so far
    pc,            \* "new", "ready" (constructed) or "failed" (__init__ raised)
    paragraphs,    \* self.paragraphs
    df,            \* self.df: None or the table of rows
    vectorizer,    \* the fitted state of self.vectorizer: None or vocabulary_, idf_
    tfidf_matrix,  \* self.tfidf_matrix: None (not assigned) or the rows
    fits,          \* fit() runs since the store last changed: 0, 1, or 2 for more
    call,          \* the last operation and its arguments
    outcome        \* what it raised or returned

vars == <<store, writes, pc, paragraphs, df, vectorizer, tfidf_matrix,
          fits, call, outcome>>

NoArgs == [query |-> <<>>, filters |-> None, top_k |-> 0, index |-> None]

Call(op, args) ==
    [op |-> op, query |-> args.query, filters |-> args.filters,
     top_k |-> args.top_k, index |-> args.index]

Outcome(error, documents, scores) ==
    [error |-> error, documents |-> documents, indices_and_scores |-> scores]

\* ------------------------------------------------------------- fit
\* pd.DataFrame.from_dict(self.paragraphs), then df["text"] = " ".join(text)
frame(ps) ==
    [i \in 1..Len(ps) |->
        [paragraph_id |-> ps[i].paragraph_id, document_id |-> ps[i].document_id,
         text |-> Join(ps[i].text), meta |-> ps[i].meta]]

\* TfidfRetriever.fit run on paragraphs ps with vectorizer vec and matrix mat
\* held: the df, vectorizer and tfidf_matrix it leaves, and what it raised.
\* No paragraphs: the table has no "text" column and line 104 raises KeyError,
\* after line 103 assigned the table.  No terms: line 105 raises ValueError.
fit_state(ps, vec, mat) ==
    IF ps = <<>>
    THEN [error |-> "KeyError", df |-> Some(<<>>), vectorizer |-> vec,
          tfidf_matrix |-> mat]
    ELSE LET table == frame(ps)
             ft == fit_transform([i \in 1..Len(table) |-> table[i].text])
         IN IF ft.error # "none"
            THEN [error |-> ft.error, df |-> Some(table), vectorizer |-> vec,
                  tfidf_matrix |-> mat]
            ELSE [error |-> "none", df |-> Some(table),
                  vectorizer |-> ft.vectorizer, tfidf_matrix |-> ft.matrix]

\* ------------------------------------------------------------- retrieve
\* the dot product of a matrix row and the query vector
Dot(row, q) == SumOver(DOMAIN row, [t \in DOMAIN row |-> row[t] * q[t]])

\* sorted ascending and then reversed: equal scores come out in reverse order
insert_ties_reversed(sorted, x) ==
    LET before == {j \in 1..Len(sorted) : sorted[j][2] > x[2]}
        n == Cardinality(before)
    IN SubSeq(sorted, 1, n) \o <<x>> \o SubSeq(sorted, n + 1, Len(sorted))

\* one step of sorted(..., key=score, reverse=True): x goes after every pair
\* whose score is at least its own, which keeps the sort stable
insert_sorted(sorted, x) ==
    LET before == {j \in 1..Len(sorted) : sorted[j][2] >= x[2]}
        n == Cardinality(before)
    IN SubSeq(sorted, 1, n) \o <<x>> \o SubSeq(sorted, n + 1, Len(sorted))

RECURSIVE sorted_desc(_, _, _)
\* sorted(idx_scores, key=lambda tup: tup[1], reverse=True), from pair k on
sorted_desc(pairs, k, acc) ==
    IF k > Len(pairs) THEN acc
    ELSE sorted_desc(pairs, k + 1, insert_sorted(acc, pairs[k]))

\* TfidfRetriever._calc_scores: the (idx, score) pairs in ranked order
_calc_scores(vec, matrix, query) ==
    LET question_vector == transform(vec, query)
        idx_scores == [i \in 1..Len(matrix) |->
                          <<i - 1, Dot(matrix[i], question_vector)>>]
    IN sorted_desc(idx_scores, 1, <<>>)

\* seq[:top_k + 1]: one row too many
slice_through(seq, top_k) ==
    IF top_k + 1 >= 0 THEN SubSeq(seq, 1, Min(top_k + 1, Len(seq)))
    ELSE SubSeq(seq, 1, Max(Len(seq) + top_k + 1, 0))

\* seq[:top_k]
SliceTo(seq, top_k) ==
    IF top_k >= 0 THEN SubSeq(seq, 1, Min(top_k, Len(seq)))
    ELSE SubSeq(seq, 1, Max(Len(seq) + top_k, 0))

\* `if filters:` on None or a dict
TruthyDict(f) == Len(f) > 0 /\ f[1] # {}

\* `if index:` on None or a string
TruthyStr(x) == Len(x) > 0 /\ Len(x[1]) > 0

\* Document(id=meta["paragraph_id"], text=para, meta=meta.get("meta", {}))
\* for one row of df_sliced
ResultDocument(row) ==
    LET meta == [document_id |-> row.document_id,
                 paragraph_id |-> row.paragraph_id, meta |-> row.meta]
    IN [id |-> meta.paragraph_id, text |-> row.text, meta |-> meta.meta]

\* TfidfRetriever.retrieve on table, vectorizer and matrix: what it raises or
\* returns
retrieve_outcome(table, vec, matrix, args) ==
    IF TruthyDict(args.filters) THEN Outcome("NotImplementedError", <<>>, None)
    ELSE IF TruthyStr(args.index) THEN Outcome("NotImplementedError", <<>>, None)
    ELSE LET indices_and_scores == _calc_scores(vec, matrix, args.query)
             df_sliced == SliceTo([k \in 1..Len(indices_and_scores) |->
                                     table[indices_and_scores[k][1] + 1]],
                                  args.top_k)
         IN Outcome("none",
                    [k \in 1..Len(df_sliced) |-> ResultDocument(df_sliced[k])],
                    Some(indices_and_scores))

\* the arguments retrieve may be called with
RetrieveArgs ==
    { [query |-> q, filters |-> fi[1], top_k |-> k, index |-> fi[2]] :
        q \in Queries, fi \in FiltersAndIndex, k \in TopKs }

\* ------------------------------------------------------------- actions
\* the document store gains a document (the store is outside the retriever)
write_documents ==
    /\ writes < MaxWrites
    /\ writes < Len(DocIds)
    /\ \E d \in DocPool :
          store' = Append(store, [id |-> DocIds[writes + 1], text |-> d.text,
                                  meta |-> d.meta])
    /\ writes' = writes + 1
    /\ fits' = 0
    /\ call' = Call("write_documents", NoArgs)
    /\ outcome' = Outcome("none", <<>>, None)
    /\ UNCHANGED <<pc, paragraphs, df, vectorizer, tfidf_matrix>>

\* the document store loses its documents
delete_all_documents ==
    /\ store # <<>>
    /\ store' = <<>>
    /\ fits' = 0
    /\ call' = Call("delete_all_documents", NoArgs)
    /\ outcome' = Outcome("none", <<>>, None)
    /\ UNCHANGED <<writes, pc, paragraphs, df, vectorizer, tfidf_matrix>>

\* TfidfRetriever.__init__: segment the store's documents, df = None, fit()
__init__ ==
    /\ pc = "new"
    /\ LET ps == _get_all_paragraphs(store)
           st == fit_state(ps, None, None)
       IN /\ paragraphs' = ps
          /\ df' = st.df
          /\ vectorizer' = st.vectorizer
          /\ tfidf_matrix' = st.tfidf_matrix
          /\ pc' = IF st.error = "none" THEN "ready" ELSE "failed"
          /\ outcome' = Outcome(st.error, <<>>, None)
    /\ fits' = 1
    /\ call' = Call("__init__", NoArgs)
    /\ UNCHANGED <<store, writes>>

\* fit() that also appends the new rows to the table already held
fit_appending ==
    /\ pc = "ready"
    /\ LET st == fit_state(paragraphs, vectorizer, tfidf_matrix)
       IN /\ df' = Some(df[1] \o st.df[1])
          /\ vectorizer' = st.vectorizer
          /\ tfidf_matrix' = Some(tfidf_matrix[1] \o st.tfidf_matrix[1])
          /\ outcome' = Outcome(st.error, <<>>, None)
    /\ fits' = Min(fits + 1, 2)
    /\ call' = Call("fit", NoArgs)
    /\ UNCHANGED <<store, writes, pc, paragraphs>>

\* TfidfRetriever.fit called on the constructed retriever
fit ==
    /\ pc = "ready"
    /\ LET st == fit_state(paragraphs, vectorizer, tfidf_matrix)
       IN /\ df' = st.df
          /\ vectorizer' = st.vectorizer
          /\ tfidf_matrix' = st.tfidf_matrix
          /\ outcome' = Outcome(st.error, <<>>, None)
    /\ fits' = Min(fits + 1, 2)
    /\ call' = Call("fit", NoArgs)
    /\ UNCHANGED <<store, writes, pc, paragraphs>>

\* retrieve that assigns the ranked table back: self.df = self.df.loc[keys]
retrieve_reordering_table ==
    /\ pc = "ready"
    /\ \E args \in RetrieveArgs :
          /\ call' = Call("retrieve", args)
          /\ outcome' = retrieve_outcome(df[1], vectorizer[1], tfidf_matrix[1], args)
          /\ df' =
                IF outcome'.error # "none" THEN df
                ELSE LET ranked == outcome'.indices_and_scores[1]
                     IN Some([k \in 1..Len(ranked) |-> df[1][ranked[k][1] + 1]])
    /\ UNCHANGED <<store, writes, pc, paragraphs, vectorizer, tfidf_matrix, fits>>

\* TfidfRetriever.retrieve called on the constructed retriever
retrieve ==
    /\ pc = "ready"
    /\ \E args \in RetrieveArgs :
          /\ call' = Call("retrieve", args)
          /\ outcome' = retrieve_outcome(df[1], vectorizer[1], tfidf_matrix[1], args)
    /\ UNCHANGED <<store, writes, pc, paragraphs, df, vectorizer, tfidf_matrix,
                   fits>>

\* ------------------------------------------------------------- specification
Init ==
    /\ store = <<>>
    /\ writes = 0
    /\ pc = "new"
    /\ paragraphs = <<>>
    /\ df = None
    /\ vectorizer = None
    /\ tfidf_matrix = None
    /\ fits = 0
    /\ call = Call("none", NoArgs)
    /\ outcome = Outcome("none", <<>>, None)

Next ==
    \/ write_documents
    \/ delete_all_documents
    \/ __init__
    \/ fit
    \/ retrieve

Spec == Init /\ [][Next]_vars

\* ------------------------------------------------------------- segmentation on all short texts
SegAlphabet == {"a", " ", "\n"}

\* the texts of m documents cut out of the string t at the places c
CutDocuments(t, m, c) ==
    [j \in 1..m |->
        [id |-> DocIds[j],
         text |-> SubSeq(t, (IF j = 1 THEN 0 ELSE c[j - 1]) + 1,
                            IF j = m THEN Len(t) ELSE c[j]),
         meta |-> [name |-> "faq"]]]

\* the places where a string of n characters may be cut into m documents
Cuts(n, m) ==
    { c \in [1..(m - 1) -> 0..n] : \A j \in 1..(m - 2) : c[j] <= c[j + 1] }

\* the store holds at most MaxSegDocs documents whose texts hold at most
\* MaxSegChars characters of SegAlphabet in all; the retriever is not yet built
InitSeg ==
    /\ \E n \in 0..MaxSegChars, m \in 0..MaxSegDocs :
          /\ m = 0 => n = 0
          /\ \E t \in [1..n -> SegAlphabet], c \in Cuts(n, m) :
                store = CutDocuments(t, m, c)
    /\ Len(store) <= Len(DocIds)
    /\ writes = Len(store)
    /\ pc = "new"
    /\ paragraphs = <<>>
    /\ df = None
    /\ vectorizer = None
    /\ tfidf_matrix = None
    /\ fits = 0
    /\ call = Call("none", NoArgs)
    /\ outcome = Outcome("none", <<>>, None)

NextSeg == __init__

SpecSeg == InitSeg /\ [][NextSeg]_vars

\* ------------------------------------------------------------- properties
\* the last operation was a retrieve that returned
Retrieved == call.op = "retrieve" /\ outcome.error = "none"

\* the (idx, score) pairs _calc_scores returned to the last retrieve
Ranked == outcome.indices_and_scores[1]

\* p has a character that is not whitespace
NonBlank(p) == \E i \in 1..Len(p) : p[i] \notin Whitespace

\* p holds a blank-line boundary
HasBoundary(p) == \E i \in 1..(Len(p) - 1) : p[i] = "\n" /\ p[i + 1] = "\n"

RECURSIVE Rejoin(_)
\* the segments put together again, "\n\n" between them
Rejoin(segs) ==
    IF Len(segs) = 1 THEN segs[1]
    ELSE segs[1] \o <<"\n", "\n">> \o Rejoin(Tail(segs))

RECURSIVE NonBlankSegments(_, _)
\* document by document from d on, the segments that are not blank
NonBlankSegments(documents, d) ==
    IF d > Len(documents) THEN <<>>
    ELSE LET kept == SelectSeq(Split(documents[d].text), NonBlank)
         IN [k \in 1..Len(kept) |-> [doc |-> documents[d], text |-> kept[k]]]
            \o NonBlankSegments(documents, d + 1)

\* C1: after fit() the held paragraphs and table are the segmentation of the
\* documents the store returns at the time of that call
C1_FitRebuildsFromStore ==
    (call.op = "fit" /\ outcome.error = "none") =>
        /\ paragraphs = _get_all_paragraphs(store)
        /\ df = Some(frame(_get_all_paragraphs(store)))

\* C2: retrieve raises the capability error, with no documents and no scores,
\* exactly when filters is a non-empty mapping or index is not None
C2_UnsupportedArgumentsFail ==
    call.op = "retrieve" =>
        IF (call.filters # None /\ call.filters[1] # {}) \/ call.index # None
        THEN /\ outcome.error = "NotImplementedError"
             /\ outcome.documents = <<>>
             /\ outcome.indices_and_scores = None
        ELSE /\ outcome.error = "none"
             /\ outcome.indices_and_scores # None

\* C3: fit() raises EmptyCorpus whenever the store yields no non-blank
\* paragraph or no paragraph with a term, and never succeeds with an empty
\* vocabulary or a matrix without rows
C3_EmptyCorpusFails ==
    call.op = "fit" =>
        LET ps == _get_all_paragraphs(store)
        IN /\ (\A i \in 1..Len(ps) : Tokenize(ps[i].text[1]) = <<>>)
                 => outcome.error = "EmptyCorpus"
           /\ outcome.error = "none" =>
                 /\ vectorizer # None /\ tfidf_matrix # None
                 /\ vectorizer[1].vocabulary_ # {}
                 /\ Len(tfidf_matrix[1]) > 0

\* C4: a fit() that raises leaves every held component as it was before the
\* call; for the fit() of the constructor that is df = None, an unfitted
\* vectorizer and no matrix
C4_FailedFitInstallsNothing ==
    (call.op = "__init__" /\ outcome.error # "none") =>
        df = None /\ vectorizer = None /\ tfidf_matrix = None

\* C5: the pairs the scorer returns hold every paragraph index once with its
\* score, by score descending and, among equal scores, by index ascending;
\* when all scores are equal the documents returned are a prefix of the
\* paragraphs in insertion order, the first top_k of them for top_k >= 0
C5_RankedByScoreStable ==
    Retrieved =>
        /\ Len(Ranked) = Len(paragraphs)
        /\ {Ranked[k][1] : k \in 1..Len(Ranked)} = 0..(Len(paragraphs) - 1)
        /\ \A k \in 1..Len(Ranked) :
              Ranked[k][2] = Dot(tfidf_matrix[1][Ranked[k][1] + 1],
                                 transform(vectorizer[1], call.query))
        /\ \A j, k \in 1..Len(Ranked) :
              j < k => \/ Ranked[j][2] > Ranked[k][2]
                       \/ Ranked[j][2] = Ranked[k][2] /\ Ranked[j][1] < Ranked[k][1]
        /\ (\A j, k \in 1..Len(Ranked) : Ranked[j][2] = Ranked[k][2]) =>
              /\ \A k \in 1..Len(outcome.documents) :
                    outcome.documents[k].id = paragraphs[k].paragraph_id
              /\ call.top_k >= 0 =>
                    Len(outcome.documents) = Min(call.top_k, Len(paragraphs))

\* a retrieve ranked two paragraphs of equal, non-zero score ahead of paragraph 0
C5_Witness ==
    /\ Retrieved
    /\ Len(Ranked) >= 3
    /\ Ranked[1][2] = Ranked[2][2]
    /\ Ranked[2][2] > Ranked[3][2]
    /\ Ranked[3][1] = 0

\* C6: a retrieve that returns gives at most top_k documents and at most
\* the paragraph count, and that count when top_k exceeds it
C6_AtMostTopK ==
    Retrieved =>
        /\ Len(outcome.documents) <= call.top_k
        /\ Len(outcome.documents) <= Len(paragraphs)
        /\ call.top_k > Len(paragraphs) =>
              Len(outcome.documents) = Len(paragraphs)

\* C6, amended: the same for top_k >= 0
C6_AtMostTopKNonNegative ==
    (Retrieved /\ call.top_k >= 0) =>
        /\ Len(outcome.documents) <= call.top_k
        /\ Len(outcome.documents) <= Len(paragraphs)
        /\ call.top_k > Len(paragraphs) =>
              Len(outcome.documents) = Len(paragraphs)

\* a retrieve cut the ranking to top_k documents, fewer than the paragraphs
C6_Witness ==
    /\ Retrieved
    /\ call.top_k > 0
    /\ call.top_k < Len(paragraphs)
    /\ Len(outcome.documents) = call.top_k

\* C7: the paragraphs are the segments of the documents that are not blank,
\* one each, in document then segment order, with paragraph_id 0, 1, 2, ...;
\* the segments of a text are delimited by "\n\n" and make up the text
C7_Segmentation ==
    call.op = "__init__" =>
        LET expected == NonBlankSegments(store, 1)
        IN /\ Len(paragraphs) = Len(expected)
           /\ \A i \in 1..Len(paragraphs) :
                 /\ paragraphs[i].paragraph_id = i - 1
                 /\ paragraphs[i].text = <<expected[i].text>>
                 /\ paragraphs[i].document_id = expected[i].doc.id
                 /\ paragraphs[i].meta = expected[i].doc.meta
                 /\ NonBlank(paragraphs[i].text[1])
                 /\ ~HasBoundary(paragraphs[i].text[1])
           /\ \A d \in 1..Len(store) : Rejoin(Split(store[d].text)) = store[d].text

\* two documents gave one paragraph each, the first after dropping a
\* whitespace-only segment
C7_Witness ==
    /\ call.op = "__init__"
    /\ Len(store) = 2
    /\ Len(paragraphs) = 2
    /\ paragraphs[1].document_id # paragraphs[2].document_id
    /\ \E k \in 1..Len(Split(store[1].text)) :
          LET seg == Split(store[1].text)[k] IN seg # <<>> /\ ~NonBlank(seg)

\* C8: the k-th document returned is the paragraph at the k-th ranked index:
\* its paragraph_id as id, its text, and a meta holding its document id, its
\* paragraph id and the document's meta; it has no score
C8_ResultCarriesParagraph ==
    Retrieved =>
        \A k \in 1..Len(outcome.documents) :
            LET p == paragraphs[Ranked[k][1] + 1]
                doc == outcome.documents[k]
            IN /\ doc.id = p.paragraph_id
               /\ doc.text = Join(p.text)
               /\ "score" \notin DOMAIN doc
               /\ {"document_id", "paragraph_id", "meta"} \subseteq DOMAIN doc.meta
               /\ doc.meta.document_id = p.document_id
               /\ doc.meta.paragraph_id = p.paragraph_id
               /\ doc.meta.meta = p.meta

\* C9: a fit() run when fit() has run since the store last changed leaves the
\* paragraphs, the table, the vectorizer and the matrix as they were, and
\* every retrieve call returns after it what it returned before it
C9_FitIdempotent ==
    [][(pc = "ready" /\ fits >= 1 /\ call'.op = "fit") =>
          /\ outcome'.error = "none"
          /\ paragraphs' = paragraphs
          /\ df' = df
          /\ vectorizer' = vectorizer
          /\ tfidf_matrix' = tfidf_matrix
          /\ \A args \in RetrieveArgs :
                retrieve_outcome(df'[1], vectorizer'[1], tfidf_matrix'[1], args)
                  = retrieve_outcome(df[1], vectorizer[1], tfidf_matrix[1], args)
      ]_vars

\* fit() ran again with the store unchanged since the fit() before it
C9_Witness ==
    call.op = "fit" /\ fits = 2 /\ outcome.error = "none" /\ Len(paragraphs) >= 2

\* C10: a retrieve call, raising or returning, leaves the paragraphs, the
\* table, the vectorizer (vocabulary and idf) and the matrix as they were, and
\* a retrieve call right after one with the same arguments returns the same
C10_RetrieveReadOnly ==
    [][call'.op = "retrieve" =>
          /\ paragraphs' = paragraphs
          /\ df' = df
          /\ vectorizer' = vectorizer
          /\ tfidf_matrix' = tfidf_matrix
          /\ (call.op = "retrieve" /\ call' = call) => outcome' = outcome
      ]_vars

\* a retrieve with an in-vocabulary query ranked another paragraph ahead of
\* paragraph 0 and left the table in paragraph order
C10_Witness ==
    /\ Retrieved
    /\ Ranked[1][1] # 0
    /\ Ranked[1][2] > 0
    /\ \A i \in 1..Len(df[1]) : df[1][i].paragraph_id = i - 1

====
